---- MODULE Spec2Model ----
(***************************************************************************)
(* Model of the data-ingestion Cloud Function:                             *)
(*   main.py            data_ingest_process (entry point)                  *)
(*   modules/handler.py handle_gcs_event_data (filter, read, move)         *)
(*   modules/gcs.py     GCSClient (get_blob, get_blob_content, move_blob)  *)
(*                                                                         *)
(* Representation of Python values:                                        *)
(*   str           a sequence of tokens; the token "/" is the character    *)
(*                 '/', every other token is a maximal run of characters   *)
(*                 other than '/'.  "" is <<>>.  Two strings are equal iff *)
(*                 their token sequences are equal.                        *)
(*   Optional[T]   None is <<>>, a present value x is <<x>>.               *)
(*   dict          a function whose domain is the set of keys present.     *)
(* The bucket store is the set of <<bucket, object name>> that exist.      *)
(***************************************************************************)
EXTENDS Naturals, Sequences, FiniteSets, TLC

\* Number of concurrently running invocations of the Cloud Function
\* (duplicate or overlapping deliveries of notifications).
NumInv == 2

Inv == 1..NumInv

\* The adapter is also exercised directly by one caller thread.
AdapterProcs == {1}

None == <<>>
Some(x) == <<x>>
EMPTY == <<>>

\* handler.py configuration constants
SOURCE_BUCKET == <<"supply-chain-compensation-analysis-with-nlp">>
SOURCE_FOLDER == <<"raw_data">>
TARGET_FOLDER == <<"processed_data">>

\* A bucket other than the configured one.
OTHER_BUCKET == <<"other-bucket">>

\* The text stored in every object.  The handler only logs it and the lines
\* split from it; neither reaches the storage calls.
CONTENT == <<"text">>

-----------------------------------------------------------------------------
\* Python semantics used by the code

\* truthiness of an Optional[str]: None and "" are falsy
Truthy(x) == x # None /\ x[1] # EMPTY

\* a or b
Or(a, b) == IF Truthy(a) THEN a ELSE b

\* d.get(k, default)
DictGet(d, k, default) == IF k \in DOMAIN d THEN d[k] ELSE default

HasSlash(s) == \E k \in 1..Len(s) : s[k] = "/"

LastSlash(s) == CHOOSE k \in 1..Len(s) : s[k] = "/" /\ \A j \in (k+1)..Len(s) : s[j] # "/"

FirstSlash(s) == CHOOSE k \in 1..Len(s) : s[k] = "/" /\ \A j \in 1..(k-1) : s[j] # "/"

\* faulty variant: split on the first '/' instead of the last
RSplitFirst(s) ==
  IF HasSlash(s)
  THEN <<SubSeq(s, 1, FirstSlash(s) - 1), SubSeq(s, FirstSlash(s) + 1, Len(s))>>
  ELSE <<EMPTY, s>>

\* blob_name.rsplit('/', 1) if '/' in blob_name else ("", blob_name)
RSplit(s) ==
  IF HasSlash(s)
  THEN <<SubSeq(s, 1, LastSlash(s) - 1), SubSeq(s, LastSlash(s) + 1, Len(s))>>
  ELSE <<EMPTY, s>>

-----------------------------------------------------------------------------
\* The remote object-storage service, as the client library presents it

\* A remote call that was issued, and whether the service completed it.
Call(o, loc, to, ok) == [op |-> o, loc |-> loc, to |-> to, ok |-> ok]

\* A location the service can hold an object at.
ValidLocation(loc) == loc[1] # EMPTY /\ loc[2] # EMPTY

\* storage_client.bucket(b) / bucket.blob(n): local construction of the
\* references; it raises for an empty bucket name and may raise otherwise
\* (libOk).
RefCreated(b, libOk) == libOk /\ b # EMPTY

\* blob.open("r").read(): fails when the object is absent, may fail otherwise
RemoteRead(st, loc, svcOk) == svcOk /\ loc \in st

\* source_bucket.copy_blob(source_blob, target_bucket, name)
RemoteCopy(st, src, tgt, svcOk) == svcOk /\ src \in st /\ ValidLocation(tgt)

\* source_blob.delete(): fails (NotFound) when the object is absent
RemoteDelete(st, loc, svcOk) == svcOk /\ loc \in st

-----------------------------------------------------------------------------
\* modules/gcs.py

\* GCSClient.__init__
GCSClientInit(bucket_name, blob_name) ==
  [bucket_name |-> bucket_name, blob_name |-> blob_name]

NoClient == GCSClientInit(None, None)

\* GCSClient._get_validated_names: None, or Some(<<bucket, blob>>)
GetValidatedNames(self, bucket_name, blob_name) ==
  LET target_bucket_name == Or(bucket_name, self.bucket_name)
      target_blob_name   == Or(blob_name, self.blob_name)
  IN  IF target_bucket_name = None \/ target_blob_name = None
      THEN None
      ELSE Some(<<target_bucket_name[1], target_blob_name[1]>>)

\* GCSClient._get_blob_or_none: the reference, or None when creating it raised
GetBlobOrNone(bucket_name, blob_name, libOk) ==
  IF RefCreated(bucket_name, libOk) THEN Some(<<bucket_name, blob_name>>) ELSE None

\* GCSClient.get_blob
GetBlob(self, bucket_name, blob_name, libOk) ==
  LET names == GetValidatedNames(self, bucket_name, blob_name)
  IN  IF names = None
      THEN None
      ELSE GetBlobOrNone(names[1][1], names[1][2], libOk)

\* faulty variant: the except branch returns "" instead of None
BlobReadResultEmpty(ok) == IF ok THEN Some(CONTENT) ELSE Some(EMPTY)

\* GCSClient.get_blob_content, the try/except around the read
BlobReadResult(ok) == IF ok THEN Some(CONTENT) ELSE None

\* GCSClient.get_blob_content: the content returned and the remote calls issued
GetBlobContent(self, bucket_name, blob_name, libOk, svcOk, st) ==
  LET ref == GetBlob(self, bucket_name, blob_name, libOk)
  IN  IF ref = None
      THEN [content |-> None, calls |-> <<>>]
      ELSE LET ok == RemoteRead(st, ref[1], svcOk)
           IN  [content |-> BlobReadResult(ok),
                calls   |-> <<Call("read", ref[1], None, ok)>>]

\* faulty variant: the guard compares the buckets with != instead of ==
SameLocationTypo(sb, sn, tb, tn) == sn = tn /\ sb # tb

\* GCSClient.move_blob, step 3: the same-location safety check
SameLocation(sb, sn, tb, tn) == sn = tn /\ sb = tb

\* GCSClient.move_blob, steps 1-3: validation, defaulting and the safety
\* check.  ret is Some(FALSE) when move_blob returns here, None when it goes
\* on to the try block; req is the resolved request, None when the source
\* names did not validate.
MoveBlobBegin(self, source_bucket_name, source_blob_name, target_bucket_name, target_blob_name) ==
  LET source_names == GetValidatedNames(self, source_bucket_name, source_blob_name)
  IN  IF source_names = None
      THEN [ret |-> Some(FALSE), req |-> None]
      ELSE LET sb == source_names[1][1]
               sn == source_names[1][2]
               tb == Or(Or(target_bucket_name, self.bucket_name), Some(sb))[1]
               tn == Or(target_blob_name, Some(sn))[1]
               r  == [source_bucket |-> sb, source_blob |-> sn,
                      target_bucket |-> tb, target_blob |-> tn]
           IN  IF SameLocation(sb, sn, tb, tn)
               THEN [ret |-> Some(FALSE), req |-> Some(r)]
               ELSE [ret |-> None, req |-> Some(r)]

\* faulty variant: the delete is attempted whether or not the copy raised
AfterCopyAlways(copyOk) == "delete"

\* GCSClient.move_blob, the try block: an exception in the copy skips the delete
AfterCopy(copyOk) == IF copyOk THEN "delete" ELSE "done"

\* faulty variant: the failure of the delete is swallowed
MoveBlobResultCopyOnly(copyOk, deleteOk) == copyOk

\* GCSClient.move_blob: True after both steps, False from the except branch
MoveBlobResult(copyOk, deleteOk) == copyOk /\ deleteOk

-----------------------------------------------------------------------------
\* modules/handler.py

\* 2a. bucket_name != SOURCE_BUCKET
BucketAccepted(bucket_name) == bucket_name = SOURCE_BUCKET

\* 2b. folder_path != SOURCE_FOLDER
FolderAccepted(folder_path) == folder_path = SOURCE_FOLDER

\* faulty variant: the target is built from the source folder constant
TargetBlobNameSourceFolder(blob_path) == SOURCE_FOLDER \o <<"/">> \o blob_path

\* f"{TARGET_FOLDER}/{blob_path}"
TargetBlobName(blob_path) == TARGET_FOLDER \o <<"/">> \o blob_path

\* faulty variant: the move is attempted whatever the read returned
ShouldMoveAlways(blob_data) == TRUE

\* if blob_data is not None
ShouldMove(blob_data) == blob_data # None

-----------------------------------------------------------------------------
\* Inputs

\* An event payload with the given (optional) bucket and name fields.
Event(b, n) ==
  [k \in (IF b = None THEN {} ELSE {"bucket"}) \cup (IF n = None THEN {} ELSE {"name"})
     |-> IF k = "bucket" THEN b[1] ELSE n[1]]

EventBuckets == {None, Some(SOURCE_BUCKET), Some(OTHER_BUCKET)}

EventNames ==
  {None,
   Some(<<"f">>),
   Some(<<"raw_data", "/">>),
   Some(<<"raw_data", "/", "f">>),
   Some(<<"raw_data", "/", "g">>),
   Some(<<"raw_data", "/", "sub", "/", "f">>),
   Some(<<"processed_data", "/", "f">>)}

\* Every name in the configured bucket; in the other buckets (and with the
\* bucket field missing) a missing name and a name in the source folder.
Events ==
  {Event(Some(SOURCE_BUCKET), n) : n \in EventNames}
    \cup {Event(b, n) : b \in EventBuckets \ {Some(SOURCE_BUCKET)},
                        n \in {None, Some(<<"raw_data", "/", "f">>)}}

\* The objects uploaded to the source folder before the notifications arrive.
UploadedObjects ==
  {<<SOURCE_BUCKET, <<"raw_data", "/", "f">>>>, <<SOURCE_BUCKET, <<"raw_data", "/", "g">>>>}

\* Arguments and instance defaults of direct adapter calls.
AdapterBuckets == {None, Some(EMPTY), Some(SOURCE_BUCKET), Some(OTHER_BUCKET)}

AdapterNames ==
  {None, Some(EMPTY), Some(<<"raw_data", "/", "f">>), Some(<<"processed_data", "/", "f">>)}

AdapterObjects ==
  {<<SOURCE_BUCKET, <<"raw_data", "/", "f">>>>, <<OTHER_BUCKET, <<"raw_data", "/", "f">>>>}

NoArgs == [bucket |-> None, blob |-> None, target_bucket |-> None, target_blob |-> None]

-----------------------------------------------------------------------------
\* State

VARIABLES
  store,        \* the objects that exist in the storage service
  pc,           \* position of each invocation / caller
  op,           \* what it is running: handler, get_blob, get_blob_content, move_blob
  data,         \* handler: the event payload (Optional)
  client,       \* the GCSClient instance defaults
  args,         \* the arguments of the adapter call in progress
  req,          \* move_blob: the resolved names (Optional)
  calls,        \* the remote calls issued so far by the operation
  blob,         \* return value of get_blob (Optional reference)
  content,      \* return value of get_blob_content (Optional str)
  move_success, \* return value of move_blob (Optional bool)
  outcome,      \* handler: which branch ended the invocation
  redelivery,   \* history: the notification was delivered after its object had been relocated
  relocated     \* history: the objects a handler invocation has moved successfully

vars == <<store, pc, op, data, client, args, req, calls, blob, content,
          move_success, outcome, redelivery, relocated>>

Fresh(f, i, v) == [f EXCEPT ![i] = v]

Init ==
  /\ store = UploadedObjects
  /\ pc = [i \in Inv |-> "idle"]
  /\ op = [i \in Inv |-> "none"]
  /\ data = [i \in Inv |-> None]
  /\ client = [i \in Inv |-> NoClient]
  /\ args = [i \in Inv |-> NoArgs]
  /\ req = [i \in Inv |-> None]
  /\ calls = [i \in Inv |-> <<>>]
  /\ blob = [i \in Inv |-> None]
  /\ content = [i \in Inv |-> None]
  /\ move_success = [i \in Inv |-> None]
  /\ outcome = [i \in Inv |-> "none"]
  /\ redelivery = [i \in Inv |-> FALSE]
  /\ relocated = {}

-----------------------------------------------------------------------------
\* main.data_ingest_process -> handler.handle_gcs_event_data

\* Steps 1-3: extract the names, filter, construct the client.
Invoke(i, d) ==
  /\ pc[i] = "idle"
  /\ LET bucket_name == DictGet(d, "bucket", EMPTY)
         blob_name   == DictGet(d, "name", EMPTY)
         folder_path == RSplit(blob_name)[1]
     IN  /\ data' = Fresh(data, i, Some(d))
         /\ op' = Fresh(op, i, "handler")
         /\ redelivery' = Fresh(redelivery, i, <<bucket_name, blob_name>> \in relocated)
         /\ IF ~BucketAccepted(bucket_name)
            THEN /\ pc' = Fresh(pc, i, "done")
                 /\ outcome' = Fresh(outcome, i, "ignored_bucket")
                 /\ UNCHANGED client
            ELSE IF ~FolderAccepted(folder_path)
            THEN /\ pc' = Fresh(pc, i, "done")
                 /\ outcome' = Fresh(outcome, i, "ignored_folder")
                 /\ UNCHANGED client
            ELSE /\ pc' = Fresh(pc, i, "fetch")
                 /\ outcome' = Fresh(outcome, i, "validated")
                 /\ client' = Fresh(client, i, GCSClientInit(Some(bucket_name), Some(blob_name)))
  /\ UNCHANGED <<store, args, req, calls, blob, content, move_success, relocated>>

\* Steps 4-6 up to the first remote call of move_blob: read the content,
\* and when it was read, build the target name and enter move_blob.
HandlerFetch(i) ==
  /\ pc[i] = "fetch"
  /\ op[i] = "handler"
  /\ LET bucket_name == DictGet(data[i][1], "bucket", EMPTY)
         blob_name   == DictGet(data[i][1], "name", EMPTY)
         blob_path   == RSplit(blob_name)[2]
     IN  \E libOk \in BOOLEAN, svcOk \in BOOLEAN :
           LET r == GetBlobContent(client[i], None, None, libOk, svcOk, store)
               m == MoveBlobBegin(client[i], None, None,
                                  Some(bucket_name), Some(TargetBlobName(blob_path)))
           IN  /\ content' = Fresh(content, i, r.content)
               /\ calls' = Fresh(calls, i, calls[i] \o r.calls)
               /\ IF ShouldMove(r.content)
                  THEN /\ req' = Fresh(req, i, m.req)
                       /\ move_success' = Fresh(move_success, i, m.ret)
                       /\ pc' = Fresh(pc, i, IF m.ret = None THEN "copy" ELSE "done")
                       /\ outcome' = Fresh(outcome, i, IF m.ret = None THEN "moving" ELSE "move_failed")
                  ELSE /\ pc' = Fresh(pc, i, "done")
                       /\ outcome' = Fresh(outcome, i, "fetch_failed")
                       /\ UNCHANGED <<req, move_success>>
  /\ UNCHANGED <<store, op, data, client, args, blob, redelivery, relocated>>

\* The handler returns; the function instance is free for the next delivery.
Finish(i) ==
  /\ pc[i] = "done"
  /\ op[i] = "handler"
  /\ pc' = Fresh(pc, i, "idle")
  /\ op' = Fresh(op, i, "none")
  /\ data' = Fresh(data, i, None)
  /\ client' = Fresh(client, i, NoClient)
  /\ req' = Fresh(req, i, None)
  /\ calls' = Fresh(calls, i, <<>>)
  /\ content' = Fresh(content, i, None)
  /\ move_success' = Fresh(move_success, i, None)
  /\ outcome' = Fresh(outcome, i, "none")
  /\ redelivery' = Fresh(redelivery, i, FALSE)
  /\ UNCHANGED <<store, args, blob, relocated>>

-----------------------------------------------------------------------------
\* GCSClient.move_blob, the try block (shared by the handler and direct calls)

\* Steps 4-5: get the references and copy the blob to the target.
MoveCopy(i) ==
  /\ pc[i] = "copy"
  /\ LET r   == req[i][1]
         src == <<r.source_bucket, r.source_blob>>
         tgt == <<r.target_bucket, r.target_blob>>
     IN  \E libOk \in BOOLEAN, svcOk \in BOOLEAN :
           IF ~(RefCreated(r.source_bucket, libOk) /\ RefCreated(r.target_bucket, libOk))
           THEN /\ pc' = Fresh(pc, i, "done")
                /\ move_success' = Fresh(move_success, i, Some(FALSE))
                /\ outcome' = Fresh(outcome, i, IF op[i] = "handler" THEN "move_failed" ELSE outcome[i])
                /\ UNCHANGED <<store, calls>>
           ELSE LET ok == RemoteCopy(store, src, tgt, svcOk)
                IN  /\ store' = IF ok THEN store \cup {tgt} ELSE store
                    /\ calls' = Fresh(calls, i, Append(calls[i], Call("copy", src, Some(tgt), ok)))
                    /\ pc' = Fresh(pc, i, AfterCopy(ok))
                    /\ move_success' = Fresh(move_success, i,
                                             IF AfterCopy(ok) = "done" THEN Some(FALSE) ELSE None)
                    /\ outcome' = Fresh(outcome, i,
                                        IF op[i] = "handler" /\ AfterCopy(ok) = "done"
                                        THEN "move_failed" ELSE outcome[i])
  /\ UNCHANGED <<op, data, client, args, req, blob, content, redelivery, relocated>>

\* Step 6: delete the original blob, and return.
MoveDelete(i) ==
  /\ pc[i] = "delete"
  /\ LET r   == req[i][1]
         src == <<r.source_bucket, r.source_blob>>
         copied == \E k \in 1..Len(calls[i]) : calls[i][k].op = "copy" /\ calls[i][k].ok
     IN  \E svcOk \in BOOLEAN :
           LET ok  == RemoteDelete(store, src, svcOk)
               res == MoveBlobResult(copied, ok)
           IN  /\ store' = IF ok THEN store \ {src} ELSE store
               /\ calls' = Fresh(calls, i, Append(calls[i], Call("delete", src, None, ok)))
               /\ pc' = Fresh(pc, i, "done")
               /\ move_success' = Fresh(move_success, i, Some(res))
               /\ outcome' = Fresh(outcome, i,
                                   IF op[i] = "handler"
                                   THEN (IF res THEN "moved" ELSE "move_failed")
                                   ELSE outcome[i])
               /\ relocated' = IF op[i] = "handler" /\ res
                               THEN relocated \cup {src} ELSE relocated
  /\ UNCHANGED <<op, data, client, args, req, blob, content, redelivery>>

-----------------------------------------------------------------------------
\* Direct use of the adapter: one GCSClient, called by one thread

AdapterInit ==
  /\ store = AdapterObjects
  /\ pc = [i \in Inv |-> "idle"]
  /\ op = [i \in Inv |-> "none"]
  /\ data = [i \in Inv |-> None]
  /\ client = [i \in Inv |-> NoClient]
  /\ args = [i \in Inv |-> NoArgs]
  /\ req = [i \in Inv |-> None]
  /\ calls = [i \in Inv |-> <<>>]
  /\ blob = [i \in Inv |-> None]
  /\ content = [i \in Inv |-> None]
  /\ move_success = [i \in Inv |-> None]
  /\ outcome = [i \in Inv |-> "none"]
  /\ redelivery = [i \in Inv |-> FALSE]
  /\ relocated = {}

\* GCSClient(bucket_name, blob_name)
Construct(i, bucket_name, blob_name) ==
  /\ pc[i] \in {"idle", "ready"}
  /\ pc' = Fresh(pc, i, "ready")
  /\ client' = Fresh(client, i, GCSClientInit(bucket_name, blob_name))
  /\ UNCHANGED <<store, op, data, args, req, calls, blob, content, move_success,
                 outcome, redelivery, relocated>>

\* client.get_blob(bucket_name, blob_name)
CallGetBlob(i, bucket_name, blob_name) ==
  /\ pc[i] = "ready"
  /\ \E libOk \in BOOLEAN :
       blob' = Fresh(blob, i, GetBlob(client[i], bucket_name, blob_name, libOk))
  /\ pc' = Fresh(pc, i, "done")
  /\ op' = Fresh(op, i, "get_blob")
  /\ args' = Fresh(args, i, [NoArgs EXCEPT !.bucket = bucket_name, !.blob = blob_name])
  /\ UNCHANGED <<store, data, client, req, calls, content, move_success,
                 outcome, redelivery, relocated>>

\* client.get_blob_content(bucket_name, blob_name)
CallGetBlobContent(i, bucket_name, blob_name) ==
  /\ pc[i] = "ready"
  /\ \E libOk \in BOOLEAN, svcOk \in BOOLEAN :
       LET r == GetBlobContent(client[i], bucket_name, blob_name, libOk, svcOk, store)
       IN  /\ content' = Fresh(content, i, r.content)
           /\ calls' = Fresh(calls, i, r.calls)
  /\ pc' = Fresh(pc, i, "done")
  /\ op' = Fresh(op, i, "get_blob_content")
  /\ args' = Fresh(args, i, [NoArgs EXCEPT !.bucket = bucket_name, !.blob = blob_name])
  /\ UNCHANGED <<store, data, client, req, blob, move_success,
                 outcome, redelivery, relocated>>

\* client.move_blob(source_bucket_name, source_blob_name, target_bucket_name,
\* target_blob_name), up to the try block
CallMoveBlob(i, source_bucket_name, source_blob_name, target_bucket_name, target_blob_name) ==
  /\ pc[i] = "ready"
  /\ LET m == MoveBlobBegin(client[i], source_bucket_name, source_blob_name,
                            target_bucket_name, target_blob_name)
     IN  /\ req' = Fresh(req, i, m.req)
         /\ move_success' = Fresh(move_success, i, m.ret)
         /\ pc' = Fresh(pc, i, IF m.ret = None THEN "copy" ELSE "done")
  /\ op' = Fresh(op, i, "move_blob")
  /\ args' = Fresh(args, i, [bucket |-> source_bucket_name, blob |-> source_blob_name,
                             target_bucket |-> target_bucket_name,
                             target_blob |-> target_blob_name])
  /\ UNCHANGED <<store, data, client, calls, blob, content, outcome, redelivery, relocated>>

\* The adapter call has returned to its caller.
Return(i) ==
  /\ pc[i] = "done"
  /\ op[i] # "handler"
  /\ pc' = Fresh(pc, i, "ready")
  /\ op' = Fresh(op, i, "none")
  /\ args' = Fresh(args, i, NoArgs)
  /\ req' = Fresh(req, i, None)
  /\ calls' = Fresh(calls, i, <<>>)
  /\ blob' = Fresh(blob, i, None)
  /\ content' = Fresh(content, i, None)
  /\ move_success' = Fresh(move_success, i, None)
  /\ UNCHANGED <<store, data, client, outcome, redelivery, relocated>>

AdapterNext ==
  \E i \in AdapterProcs :
    \/ \E b \in AdapterBuckets, n \in AdapterNames : Construct(i, b, n)
    \/ \E b \in AdapterBuckets, n \in AdapterNames : CallGetBlob(i, b, n)
    \/ \E b \in AdapterBuckets, n \in AdapterNames : CallGetBlobContent(i, b, n)
    \/ \E sb \in AdapterBuckets, sn \in AdapterNames,
          tb \in AdapterBuckets, tn \in AdapterNames : CallMoveBlob(i, sb, sn, tb, tn)
    \/ MoveCopy(i)
    \/ MoveDelete(i)
    \/ Return(i)

AdapterSpec == AdapterInit /\ [][AdapterNext]_vars

Next ==
  \E i \in Inv :
    \/ \E d \in Events : Invoke(i, d)
    \/ HandlerFetch(i)
    \/ MoveCopy(i)
    \/ MoveDelete(i)
    \/ Finish(i)

Spec == Init /\ [][Next]_vars

-----------------------------------------------------------------------------
\* Vocabulary of the properties

EvBucket(i) == DictGet(data[i][1], "bucket", EMPTY)

EvName(i) == DictGet(data[i][1], "name", EMPTY)

\* invocation i is handling a notification
Handling(i) == op[i] = "handler" /\ data[i] # None

\* the object name is SOURCE_FOLDER, one '/', and one segment without '/'
InSourceFolder(n) ==
  /\ Len(n) > Len(SOURCE_FOLDER)
  /\ SubSeq(n, 1, Len(SOURCE_FOLDER)) = SOURCE_FOLDER
  /\ n[Len(SOURCE_FOLDER) + 1] = "/"
  /\ \A j \in (Len(SOURCE_FOLDER) + 2)..Len(n) : n[j] # "/"

\* the final path segment of an object name in the source folder
BaseName(n) == SubSeq(n, Len(SOURCE_FOLDER) + 2, Len(n))

Qualifies(i) == EvBucket(i) = SOURCE_BUCKET /\ InSourceFolder(EvName(i))

TargetOf(n) == TARGET_FOLDER \o <<"/">> \o BaseName(n)

HasCall(c, o, ok) == \E k \in 1..Len(c) : c[k].op = o /\ c[k].ok = ok

CallsOf(c, o) == {k \in 1..Len(c) : c[k].op = o}

\* the copy succeeded and the delete failed
Partial(c) == HasCall(c, "copy", TRUE) /\ HasCall(c, "delete", FALSE)

Src(i) == <<req[i][1].source_bucket, req[i][1].source_blob>>

Tgt(i) == <<req[i][1].target_bucket, req[i][1].target_blob>>

-----------------------------------------------------------------------------
\* C1: a notification that does not qualify (wrong or missing bucket, or a
\* folder prefix before the last '/' other than SOURCE_FOLDER: no '/', a
\* nested path, a missing name) ends at the filters: the handler issues no
\* storage read, copy or delete call and enters neither get_blob_content nor
\* move_blob.  The store changes only through calls that are logged, so the
\* invocation leaves it as it was.
C1_NonQualifyingIgnored ==
  \A i \in Inv :
    Handling(i) /\ ~Qualifies(i) =>
      /\ pc[i] = "done"
      /\ outcome[i] \in {"ignored_bucket", "ignored_folder"}
      /\ calls[i] = <<>>
      /\ req[i] = None
      /\ content[i] = None
      /\ move_success[i] = None

\* a nested path below the source folder, in the source bucket, was ignored
C1_Witness ==
  \E i \in Inv :
    /\ Handling(i)
    /\ EvBucket(i) = SOURCE_BUCKET
    /\ EvName(i) = <<"raw_data", "/", "sub", "/", "f">>
    /\ outcome[i] = "ignored_folder"
    /\ pc[i] = "done"

\* C2: for a notification for SOURCE_BUCKET/SOURCE_FOLDER/<name> whose
\* content fetch succeeded, the handler enters move_blob once, with source
\* (SOURCE_BUCKET, SOURCE_FOLDER/<name>) and target
\* (SOURCE_BUCKET, TARGET_FOLDER/<name>); the move is not rejected by the
\* guard, and at most one copy is issued, from that source to that target.
C2_MoveToTargetFolder ==
  \A i \in Inv :
    Handling(i) /\ Qualifies(i) /\ content[i] # None =>
      /\ pc[i] \in {"copy", "delete", "done"}
      /\ req[i] = Some([source_bucket |-> SOURCE_BUCKET,
                        source_blob   |-> EvName(i),
                        target_bucket |-> SOURCE_BUCKET,
                        target_blob   |-> TargetOf(EvName(i))])
      /\ outcome[i] \in {"moving", "move_failed", "moved"}
      /\ Cardinality(CallsOf(calls[i], "copy")) <= 1
      /\ pc[i] = "delete" => Cardinality(CallsOf(calls[i], "copy")) = 1
      /\ \A k \in CallsOf(calls[i], "copy") :
           /\ calls[i][k].loc = <<SOURCE_BUCKET, EvName(i)>>
           /\ calls[i][k].to = Some(<<SOURCE_BUCKET, TargetOf(EvName(i))>>)

\* raw_data/g was read and moved to processed_data/g
C2_Witness ==
  \E i \in Inv :
    /\ Handling(i)
    /\ EvName(i) = <<"raw_data", "/", "g">>
    /\ content[i] # None
    /\ outcome[i] = "moved"
    /\ <<SOURCE_BUCKET, <<"processed_data", "/", "g">>>> \in store
    /\ <<SOURCE_BUCKET, <<"raw_data", "/", "g">>>> \notin store

\* C3: when the content fetch of a qualifying notification has failed
\* (get_blob_content returned None), the handler ends there: move_blob is not
\* entered and no copy and no delete call is issued, so the invocation leaves
\* the store as it was.
C3_FetchFailureStops ==
  \A i \in Inv :
    Handling(i) /\ Qualifies(i) /\ pc[i] # "fetch" /\ content[i] = None =>
      /\ pc[i] = "done"
      /\ outcome[i] = "fetch_failed"
      /\ req[i] = None
      /\ move_success[i] = None
      /\ \A k \in 1..Len(calls[i]) : calls[i][k].op = "read" /\ ~calls[i][k].ok

\* the read of an absent object failed
C3_Witness ==
  \E i \in Inv :
    /\ Handling(i)
    /\ Qualifies(i)
    /\ outcome[i] = "fetch_failed"
    /\ calls[i] = <<Call("read", <<SOURCE_BUCKET, EvName(i)>>, None, FALSE)>>
    /\ <<SOURCE_BUCKET, EvName(i)>> \notin store

\* move_blob returns in this step
MoveReturns(i) == pc[i] \in {"copy", "delete"} /\ pc'[i] = "done"

\* C4 (as claimed): move_blob returns success only if the copy and the delete
\* both completed; when the copy succeeded and the delete failed it returns
\* failure and the object then exists at the source and at the target.
C4_Original ==
  /\ [](\A i \in Inv : move_success[i] = Some(TRUE) =>
           HasCall(calls[i], "copy", TRUE) /\ HasCall(calls[i], "delete", TRUE))
  /\ [][\A i \in Inv : MoveReturns(i) /\ Partial(calls'[i]) =>
           /\ move_success'[i] = Some(FALSE)
           /\ Src(i) \in store'
           /\ Tgt(i) \in store']_vars

\* C4 (amended): move_blob returns success only if the copy and the delete
\* both completed; when the copy succeeded and the delete failed it returns
\* failure and nothing is rolled back: the failed delete leaves the store as
\* it was, with the object at the target, and at the source exactly when it
\* was still there when the delete was issued.
C4_NoRollback ==
  /\ [](\A i \in Inv : move_success[i] = Some(TRUE) =>
           HasCall(calls[i], "copy", TRUE) /\ HasCall(calls[i], "delete", TRUE))
  /\ [][\A i \in Inv : MoveReturns(i) /\ Partial(calls'[i]) =>
           /\ move_success'[i] = Some(FALSE)
           /\ store' = store
           /\ Tgt(i) \in store']_vars

\* a move whose delete failed has returned, the object being at both places
C4_Witness ==
  \E i \in Inv :
    /\ pc[i] = "done"
    /\ Partial(calls[i])
    /\ move_success[i] = Some(FALSE)
    /\ Src(i) \in store
    /\ Tgt(i) \in store

\* C10: an object uploaded to the source folder exists at its source or at
\* its target location in every state of every interleaving of invocations,
\* whichever copies and deletes fail; and an invocation issues a delete of
\* the source only after its own copy of that source has succeeded.
C10_NoLoss ==
  /\ \A o \in UploadedObjects : o \in store \/ <<o[1], TargetOf(o[2])>> \in store
  /\ \A i \in Inv : \A k \in CallsOf(calls[i], "delete") :
       \E j \in 1..(k - 1) :
         /\ calls[i][j].op = "copy"
         /\ calls[i][j].ok
         /\ calls[i][j].loc = calls[i][k].loc

\* two invocations raced: the object is at the target only, and the delete
\* of the invocation that lost the race failed
C10_Witness ==
  \E i \in Inv : \E o \in UploadedObjects :
    /\ HasCall(calls[i], "delete", FALSE)
    /\ Src(i) = o
    /\ o \notin store
    /\ <<o[1], TargetOf(o[2])>> \in store

-----------------------------------------------------------------------------
\* Properties of the adapter called directly

MoveReturned(i) == op[i] = "move_blob" /\ pc[i] = "done"

\* move_blob returned without having changed anything: the names were
\* absent, the guard tripped, the references could not be made, or the copy
\* failed
NothingAttempted(i) == MoveReturned(i) /\ ~HasCall(calls[i], "copy", TRUE)

\* what move_blob returns when it is given no names at all
NothingAttemptedReturn == MoveBlobBegin(NoClient, None, None, None, None).ret

\* C5 (as claimed): the value move_blob returns when the copy succeeded and
\* the delete failed differs from the value it returns when nothing was
\* attempted or changed.
C5_Original ==
  \A i \in Inv :
    MoveReturned(i) /\ Partial(calls[i]) => move_success[i] # NothingAttemptedReturn

\* C5 (amended): move_blob returns False when the copy succeeded and the
\* delete failed, the same value it returns when nothing was attempted or
\* changed (names absent, guard tripped, references or copy failed); only
\* True, returned exactly when both steps completed, is distinct.  The
\* partial relocation shows in the store (the object is at the target), not
\* in the return value.
C5_PartialReturnsFalse ==
  \A i \in Inv :
    MoveReturned(i) =>
      /\ Partial(calls[i]) => move_success[i] = Some(FALSE) /\ Tgt(i) \in store
      /\ NothingAttempted(i) =>
           /\ move_success[i] = Some(FALSE)
           /\ \A k \in 1..Len(calls[i]) : ~calls[i][k].ok
      /\ move_success[i] = Some(TRUE) <=>
           HasCall(calls[i], "copy", TRUE) /\ HasCall(calls[i], "delete", TRUE)

\* a directly called move_blob copied the object and failed to delete it
C5_Witness ==
  \E i \in Inv :
    /\ MoveReturned(i)
    /\ Partial(calls[i])
    /\ move_success[i] = Some(FALSE)
    /\ Src(i) \in store
    /\ Tgt(i) \in store
    /\ Src(i) # Tgt(i)

\* C6: a move_blob call whose resolved source and target are the same
\* location returns failure at the guard, having issued no copy and no
\* delete call.
C6_SelfMoveGuard ==
  \A i \in Inv :
    op[i] = "move_blob" /\ req[i] # None /\ Src(i) = Tgt(i) =>
      /\ pc[i] = "done"
      /\ move_success[i] = Some(FALSE)
      /\ calls[i] = <<>>

\* a move of an existing object onto itself, all four names given
C6_Witness ==
  \E i \in Inv :
    /\ MoveReturned(i)
    /\ args[i].bucket = Some(SOURCE_BUCKET)
    /\ args[i].blob = Some(<<"raw_data", "/", "f">>)
    /\ args[i].target_bucket = args[i].bucket
    /\ args[i].target_blob = args[i].blob
    /\ Src(i) = Tgt(i)
    /\ Src(i) \in store
    /\ move_success[i] = Some(FALSE)

\* a name that is given: neither None nor empty
Given(x) == x # None /\ x[1] # EMPTY

\* the defaulting rule: a given argument wins, an omitted one falls back
Defaulted(arg, default) == IF Given(arg) THEN arg ELSE default

AdapterFailed(i) ==
  CASE op[i] = "get_blob"         -> blob[i] = None
    [] op[i] = "get_blob_content" -> content[i] = None
    [] op[i] = "move_blob"        -> move_success[i] = Some(FALSE)

\* C8: in get_blob, get_blob_content and move_blob (source names) a given
\* argument overrides the instance default and an omitted one falls back to
\* it; when the bucket name or the object name is absent after defaulting
\* (None or empty), the operation fails (None / False) and contacts the
\* remote service with no call.
C8_DefaultingRule ==
  \A i \in Inv :
    op[i] \in {"get_blob", "get_blob_content", "move_blob"} /\ pc[i] = "done" =>
      LET b == Defaulted(args[i].bucket, client[i].bucket_name)
          n == Defaulted(args[i].blob, client[i].blob_name)
      IN  /\ ~Given(b) \/ ~Given(n) => AdapterFailed(i) /\ calls[i] = <<>>
          /\ req[i] # None => Src(i) = <<b[1], n[1]>>

\* C9: in move_blob, when no target bucket is given the target bucket is the
\* resolved source bucket, and when no target object name is given the
\* target object name is the resolved source object name, whatever the
\* instance defaults and the source overrides are.
C9_TargetDefaultsToSource ==
  \A i \in Inv :
    op[i] = "move_blob" /\ req[i] # None =>
      /\ args[i].target_bucket = None => req[i][1].target_bucket = req[i][1].source_bucket
      /\ args[i].target_blob = None => req[i][1].target_blob = req[i][1].source_blob

-----------------------------------------------------------------------------
\* Re-delivery

\* C7 (as claimed): a notification delivered again after its object was
\* relocated successfully stops at the folder filter, with no storage read,
\* copy or delete call.
C7_Original ==
  \A i \in Inv :
    Handling(i) /\ redelivery[i] =>
      /\ pc[i] = "done"
      /\ outcome[i] = "ignored_folder"
      /\ calls[i] = <<>>

\* C7 (amended): a notification delivered again after its object was
\* relocated successfully (and not uploaded again) passes both filters, its
\* name being unchanged; the content fetch is attempted and fails, the
\* object being gone; no copy and no delete call is issued, so the store is
\* left as it was.
C7_RedeliveryFailsAtFetch ==
  \A i \in Inv :
    Handling(i) /\ redelivery[i] =>
      /\ Qualifies(i)
      /\ pc[i] \in {"fetch", "done"}
      /\ outcome[i] \in {"validated", "fetch_failed"}
      /\ req[i] = None
      /\ move_success[i] = None
      /\ \A k \in 1..Len(calls[i]) : calls[i][k].op = "read" /\ ~calls[i][k].ok
      /\ Len(calls[i]) <= 1
      /\ <<EvBucket(i), EvName(i)>> \notin store

\* the re-delivered notification ended with one failed read
C7_Witness ==
  \E i \in Inv :
    /\ Handling(i)
    /\ redelivery[i]
    /\ pc[i] = "done"
    /\ outcome[i] = "fetch_failed"
    /\ calls[i] = <<Call("read", <<EvBucket(i), EvName(i)>>, None, FALSE)>>
    /\ <<SOURCE_BUCKET, TargetOf(EvName(i))>> \in store

====
